---------------------------- MODULE Spec2Model ----------------------------
(***************************************************************************)
(* The help subsystem of the IRC daemon (irc/help.go): the Help map, the   *)
(* help index generated from it, sendHelp, which frames a text as          *)
(* RPL_HELPSTART / RPL_HELPTXT / RPL_ENDOFHELP replies, and helpHandler,    *)
(* which answers the HELP and HELPOP commands.                              *)
(*                                                                         *)
(* Go strings are TLA+ strings, used as sequences of characters: Len, \o,  *)
(* SubSeq, Head and Tail apply to them.                                    *)
(***************************************************************************)
EXTENDS Integers, Sequences, FiniteSets, TLC

VARIABLES
    Help,            \* the package variable Help (help.go:95)
    HelpIndex,       \* the package variable HelpIndex (help.go:525)
    HelpIndexOpers,  \* the package variable HelpIndexOpers (help.go:528)
    flags,           \* flags[c]: client.flags[Operator] of client c
    call,            \* the most recent call and its arguments
    sent,            \* the messages that call handed to client.Send, in order
    newHelpIndex     \* newHelpIndex[forOpers]: what GenerateHelpIndex(forOpers) returned

vars == <<Help, HelpIndex, HelpIndexOpers, flags, call, sent, newHelpIndex>>

---------------------------------------------------------------------------
(* Bounds of the model *)

\* number of connected clients
NumClients == 2
\* iteration orders of the Help map: start at one of the first MaxStart + 1
\* keys and step through the keys with a stride in 1..MaxStride
MaxStart == 2
MaxStride == 7
\* sendHelp on its own: texts of at most MaxLines lines
MaxLines == 3

Clients == 1..NumClients

---------------------------------------------------------------------------
(* The string functions of the Go library the code calls *)

\* the printable ASCII characters 32..95 and 97..126 in byte order (the
\* grave accent, 96, occurs in no string of the program)
PrintableLow == " !\"#$%&'()*+,-./0123456789:;<=>?@ABCDEFGHIJKLMNOPQRSTUVWXYZ[\\]^_"
PrintableHigh == "abcdefghijklmnopqrstuvwxyz{|}~"

At(s, i) == SubSeq(s, i, i)

MinOf(S) == CHOOSE i \in S : \A k \in S : i <= k
MaxOf(S) == CHOOSE i \in S : \A k \in S : i >= k

\* the byte value of a one-character string
Ord ==
    [c \in {At(PrintableLow, i) : i \in 1..Len(PrintableLow)} \cup
           {At(PrintableHigh, i) : i \in 1..Len(PrintableHigh)} \cup
           {"\t", "\n", "\r", "\f"} |->
        CASE c = "\t" -> 9
          [] c = "\n" -> 10
          [] c = "\f" -> 12
          [] c = "\r" -> 13
          [] \E i \in 1..Len(PrintableLow) : At(PrintableLow, i) = c ->
                31 + (CHOOSE i \in 1..Len(PrintableLow) : At(PrintableLow, i) = c)
          [] OTHER ->
                96 + (CHOOSE i \in 1..Len(PrintableHigh) : At(PrintableHigh, i) = c)]

\* the one-character string of a byte value in 32..95 or 97..126
Chr(n) == IF n < 96 THEN At(PrintableLow, n - 31) ELSE At(PrintableHigh, n - 96)

LowerChar(c) == IF Ord[c] >= 65 /\ Ord[c] <= 90 THEN Chr(Ord[c] + 32) ELSE c
UpperChar(c) == IF Ord[c] >= 97 /\ Ord[c] <= 122 THEN Chr(Ord[c] - 32) ELSE c

RECURSIVE ToLower(_)
\* strings.ToLower
ToLower(s) == IF s = "" THEN "" ELSE LowerChar(Head(s)) \o ToLower(Tail(s))

RECURSIVE ToUpper(_)
\* strings.ToUpper
ToUpper(s) == IF s = "" THEN "" ELSE UpperChar(Head(s)) \o ToUpper(Tail(s))

IsSpace(c) == c \in {" ", "\t", "\n", "\r", "\f"}

\* strings.TrimSpace
TrimSpace(s) ==
    LET keep == {i \in 1..Len(s) : ~IsSpace(At(s, i))}
    IN  IF keep = {} THEN "" ELSE SubSeq(s, MinOf(keep), MaxOf(keep))

RECURSIVE Join(_, _)
\* strings.Join
Join(elems, sep) ==
    IF Len(elems) = 0 THEN ""
    ELSE IF Len(elems) = 1 THEN elems[1]
    ELSE elems[1] \o sep \o Join(Tail(elems), sep)

RECURSIVE SplitAt(_, _, _)
\* the pieces of s from index from on, cut at the indices in at
SplitAt(s, from, at) ==
    IF at = {} THEN <<SubSeq(s, from, Len(s))>>
    ELSE LET m == MinOf(at)
         IN  <<SubSeq(s, from, m - 1)>> \o SplitAt(s, m + 1, at \ {m})

\* strings.Split with a separator of one character
Split(s, sep) == SplitAt(s, 1, {i \in 1..Len(s) : SubSeq(s, i, i) = sep})

\* a < b for Go strings: bytewise lexicographic order
Less(a, b) ==
    LET n == IF Len(a) < Len(b) THEN Len(a) ELSE Len(b)
        differ(i) == At(a, i) # At(b, i)
    IN  IF \E i \in 1..n : differ(i)
        THEN LET d == CHOOSE i \in 1..n : differ(i) /\ \A k \in 1..(i - 1) : ~differ(k)
             IN  Ord[At(a, d)] < Ord[At(b, d)]
        ELSE Len(a) < Len(b)

RECURSIVE Merge(_, _)
Merge(a, b) ==
    IF a = <<>> THEN b
    ELSE IF b = <<>> THEN a
    ELSE IF Less(b[1], a[1]) THEN <<b[1]>> \o Merge(a, Tail(b))
    ELSE <<a[1]>> \o Merge(Tail(a), b)

\* sort.Strings left out: the lines stay in the order of the loop
SortStrings_NoSort(a) == a

RECURSIVE SortStrings(_)
\* sort.Strings
SortStrings(a) ==
    IF Len(a) <= 1 THEN a
    ELSE LET h == Len(a) \div 2
         IN  Merge(SortStrings(SubSeq(a, 1, h)), SortStrings(SubSeq(a, h + 1, Len(a))))

---------------------------------------------------------------------------
(* The help entries *)

CommandHelpEntry == 0
InformationHelpEntry == 1
ISupportHelpEntry == 2

\* help.go:36-59
cmodeHelpText ==
    "== Channel Modes ==\n" \o
    "\n" \o
    "Oragono supports the following channel modes:\n" \o
    "\n" \o
    "  +b  |  Client masks that are banned from the channel (e.g. *!*@127.0.0.1)\n" \o
    "  +e  |  Client masks that are exempted from bans.\n" \o
    "  +I  |  Client masks that are exempted from the invite-only flag.\n" \o
    "  +i  |  Invite-only mode, only invited clients can join the channel.\n" \o
    "  +k  |  Key required when joining the channel.\n" \o
    "  +l  |  Client join limit for the channel.\n" \o
    "  +m  |  Moderated mode, only privileged clients can talk on the channel.\n" \o
    "  +n  |  No-outside-messages mode, only users that are on the channel can send\n" \o
    "      |  messages to it.\n" \o
    "  +r  |  Only registered users can talk in the channel.\n" \o
    "  +s  |  Secret mode, channel won't show up in /LIST or whois replies.\n" \o
    "  +t  |  Only channel opers can modify the topic.\n" \o
    "\n" \o
    "= Prefixes =\n" \o
    "\n" \o
    "  +q (~)  |  Founder channel mode.\n" \o
    "  +a (&)  |  Admin channel mode.\n" \o
    "  +o (@)  |  Operator channel mode.\n" \o
    "  +h (%)  |  Halfop channel mode.\n" \o
    "  +v (+)  |  Voice channel mode."

\* help.go:60-68
umodeHelpText ==
    "== User Modes ==\n" \o
    "\n" \o
    "Oragono supports the following user modes:\n" \o
    "\n" \o
    "  +a  |  User is marked as being away. This mode is set with the /AWAY command.\n" \o
    "  +i  |  User is marked as invisible (their channels are hidden from whois replies).\n" \o
    "  +o  |  User is an IRC operator.\n" \o
    "  +s  |  Server Notice Masks (see help with /HELPOP snomasks).\n" \o
    "  +Z  |  User is connected via TLS."

\* help.go:69-90
snomaskHelpText ==
    "== Server Notice Masks ==\n" \o
    "\n" \o
    "Oragono supports the following server notice masks for operators:\n" \o
    "\n" \o
    "  a  |  Local announcements.\n" \o
    "  c  |  Local client connections.\n" \o
    "  j  |  Local channel actions.\n" \o
    "  k  |  Local kills.\n" \o
    "  n  |  Local nick changes.\n" \o
    "  o  |  Local oper actions.\n" \o
    "  q  |  Local quits.\n" \o
    "  t  |  Local /STATS usage.\n" \o
    "  u  |  Local client account actions.\n" \o
    "  x  |  Local X-lines (DLINE/KLINE/etc).\n" \o
    "\n" \o
    "To set a snomask, do this with your nickname:\n" \o
    "\n" \o
    "  /MODE <nick> +s <chars>\n" \o
    "\n" \o
    "For instance, this would set the kill, oper, account and xline snomasks on dan:\n" \o
    "\n" \o
    "  /MODE dan +s koux"

\* help.go:94-522, the literal of the package variable Help
HelpLiteral ==
    ("acc" :> [oper |-> FALSE, helpType |-> CommandHelpEntry, duplicate |-> FALSE, text |->
            "ACC REGISTER <accountname> [callback_namespace:]<callback> [cred_type] :<credential>\n" \o
            "ACC VERIFY <accountname> <auth_code>\n" \o
            "\n" \o
            "Used in account registration. See the relevant specs for more info:\n" \o
            "http://oragono.io/specs.html"]) @@
    ("ambiance" :> [oper |-> FALSE, helpType |-> CommandHelpEntry, duplicate |-> FALSE, text |->
            "AMBIANCE <target> <text to be sent>\n" \o
            "\n" \o
            "The AMBIANCE command is used to send a scene notification to the given target."]) @@
    ("authenticate" :> [oper |-> FALSE, helpType |-> CommandHelpEntry, duplicate |-> FALSE, text |->
            "AUTHENTICATE\n" \o
            "\n" \o
            "Used during SASL authentication. See the IRCv3 specs for more info:\n" \o
            "http://ircv3.net/specs/extensions/sasl-3.1.html"]) @@
    ("away" :> [oper |-> FALSE, helpType |-> CommandHelpEntry, duplicate |-> FALSE, text |->
            "AWAY [message]\n" \o
            "\n" \o
            "If [message] is sent, marks you away. If [message] is not sent, marks you no\n" \o
            "longer away."]) @@
    ("cap" :> [oper |-> FALSE, helpType |-> CommandHelpEntry, duplicate |-> FALSE, text |->
            "CAP <subcommand> [:<capabilities>]\n" \o
            "\n" \o
            "Used in capability negotiation. See the IRCv3 specs for more info:\n" \o
            "http://ircv3.net/specs/core/capability-negotiation-3.1.html\n" \o
            "http://ircv3.net/specs/core/capability-negotiation-3.2.html"]) @@
    ("chanserv" :> [oper |-> FALSE, helpType |-> CommandHelpEntry, duplicate |-> FALSE, text |->
            "CHANSERV <subcommand> [params]\n" \o
            "\n" \o
            "ChanServ controls channel registrations."]) @@
    ("cs" :> [oper |-> FALSE, helpType |-> CommandHelpEntry, duplicate |-> FALSE, text |->
            "CS <subcommand> [params]\n" \o
            "\n" \o
            "ChanServ controls channel registrations."]) @@
    ("debug" :> [oper |-> TRUE, helpType |-> CommandHelpEntry, duplicate |-> FALSE, text |->
            "DEBUG <option>\n" \o
            "\n" \o
            "Prints debug information about the IRCd. <option> can be one of:\n" \o
            "\n" \o
            "* GCSTATS: Garbage control statistics.\n" \o
            "* NUMGOROUTINE: Number of goroutines in use.\n" \o
            "* STARTCPUPROFILE: Starts the CPU profiler.\n" \o
            "* STOPCPUPROFILE: Stops the CPU profiler.\n" \o
            "* PROFILEHEAP: Writes out the CPU profiler info."]) @@
    ("dline" :> [oper |-> TRUE, helpType |-> CommandHelpEntry, duplicate |-> FALSE, text |->
            "DLINE [ANDKILL] [MYSELF] [duration] <ip>/<net> [ON <server>] [reason [| oper reason]]\n" \o
            "\n" \o
            "Bans an IP address or network from connecting to the server. If the duration is\n" \o
            "given then only for that long. The reason is shown to the user themselves, but\n" \o
            "everyone else will see a standard message. The oper reason is shown to\n" \o
            "operators getting info about the DLINEs that exist.\n" \o
            "\n" \o
            "Bans are saved across subsequent launches of the server.\n" \o
            "\n" \o
            "\"ANDKILL\" means that all matching clients are also removed from the server.\n" \o
            "\n" \o
            "\"MYSELF\" is required when the DLINE matches the address the person applying it is connected\n" \o
            "from. If \"MYSELF\" is not given, trying to DLINE yourself will result in an error.\n" \o
            "\n" \o
            "[duration] can be of the following forms:\n" \o
            "\t1y 12mo 31d 10h 8m 13s\n" \o
            "\n" \o
            "<net> is specified in typical CIDR notation. For example:\n" \o
            "\t127.0.0.1/8\n" \o
            "\t8.8.8.8/24\n" \o
            "\n" \o
            "ON <server> specifies that the ban is to be set on that specific server.\n" \o
            "\n" \o
            "[reason] and [oper reason], if they exist, are separated by a vertical bar (|)."]) @@
    ("help" :> [oper |-> FALSE, helpType |-> CommandHelpEntry, duplicate |-> FALSE, text |->
            "HELP <argument>\n" \o
            "\n" \o
            "Get an explanation of <argument>, or \"index\" for a list of help topics."]) @@
    ("helpop" :> [oper |-> FALSE, helpType |-> CommandHelpEntry, duplicate |-> FALSE, text |->
            "HELPOP <argument>\n" \o
            "\n" \o
            "Get an explanation of <argument>, or \"index\" for a list of help topics."]) @@
    ("invite" :> [oper |-> FALSE, helpType |-> CommandHelpEntry, duplicate |-> FALSE, text |->
            "INVITE <nickname> <channel>\n" \o
            "\n" \o
            "Invites the given user to the given channel, so long as you have the\n" \o
            "appropriate channel privs."]) @@
    ("ison" :> [oper |-> FALSE, helpType |-> CommandHelpEntry, duplicate |-> FALSE, text |->
            "ISON <nickname>{ <nickname>}\n" \o
            "\n" \o
            "Returns whether the given nicks exist on the network."]) @@
    ("join" :> [oper |-> FALSE, helpType |-> CommandHelpEntry, duplicate |-> FALSE, text |->
            "JOIN <channel>{,<channel>} [<key>{,<key>}]\n" \o
            "\n" \o
            "Joins the given channels with the matching keys."]) @@
    ("kick" :> [oper |-> FALSE, helpType |-> CommandHelpEntry, duplicate |-> FALSE, text |->
            "KICK <channel> <user> [reason]\n" \o
            "\n" \o
            "Removes the user from the given channel, so long as you have the appropriate\n" \o
            "channel privs."]) @@
    ("kill" :> [oper |-> TRUE, helpType |-> CommandHelpEntry, duplicate |-> FALSE, text |->
            "KILL <nickname> [reason]\n" \o
            "\n" \o
            "Removes the given user from the network, showing them the reason if it is\n" \o
            "supplied."]) @@
    ("kline" :> [oper |-> TRUE, helpType |-> CommandHelpEntry, duplicate |-> FALSE, text |->
            "KLINE [ANDKILL] [MYSELF] [duration] <mask> [ON <server>] [reason [| oper reason]]\n" \o
            "\n" \o
            "Bans a mask from connecting to the server. If the duration is given then only for that\n" \o
            "long. The reason is shown to the user themselves, but everyone else will see a standard\n" \o
            "message. The oper reason is shown to operators getting info about the KLINEs that exist.\n" \o
            "\n" \o
            "Bans are saved across subsequent launches of the server.\n" \o
            "\n" \o
            "\"ANDKILL\" means that all matching clients are also removed from the server.\n" \o
            "\n" \o
            "\"MYSELF\" is required when the KLINE matches the address the person applying it is connected\n" \o
            "from. If \"MYSELF\" is not given, trying to KLINE yourself will result in an error.\n" \o
            "\n" \o
            "[duration] can be of the following forms:\n" \o
            "\t1y 12mo 31d 10h 8m 13s\n" \o
            "\n" \o
            "<mask> is specified in typical IRC format. For example:\n" \o
            "\tdan\n" \o
            "\tdan!5*@127.*\n" \o
            "\n" \o
            "ON <server> specifies that the ban is to be set on that specific server.\n" \o
            "\n" \o
            "[reason] and [oper reason], if they exist, are separated by a vertical bar (|)."]) @@
    ("list" :> [oper |-> FALSE, helpType |-> CommandHelpEntry, duplicate |-> FALSE, text |->
            "LIST [<channel>{,<channel>}] [<elistcond>{,<elistcond>}]\n" \o
            "\n" \o
            "Shows information on the given channels (or if none are given, then on all\n" \o
            "channels). <elistcond>s modify how the channels are selected."]) @@
    ("lusers" :> [oper |-> FALSE, helpType |-> CommandHelpEntry, duplicate |-> FALSE, text |->
            "LUSERS [<mask> [<server>]]\n" \o
            "\n" \o
            "Shows statistics about the size of the network. If <mask> is given, only\n" \o
            "returns stats for servers matching the given mask.  If <server> is given, the\n" \o
            "command is processed by that server."]) @@
    ("mode" :> [oper |-> FALSE, helpType |-> CommandHelpEntry, duplicate |-> FALSE, text |->
            "MODE <target> [<modestring> [<mode arguments>...]]\n" \o
            "\n" \o
            "Sets and removes modes from the given target. For more specific information on\n" \o
            "mode characters, see the help for \"modes\"."]) @@
    ("monitor" :> [oper |-> FALSE, helpType |-> CommandHelpEntry, duplicate |-> FALSE, text |->
            "MONITOR <subcmd>\n" \o
            "\n" \o
            "Allows the monitoring of nicknames, for alerts when they are online and\n" \o
            "offline. The subcommands are:\n" \o
            "\n" \o
            "    MONITOR + target{,target}\n" \o
            "Adds the given names to your list of monitored nicknames.\n" \o
            "\n" \o
            "    MONITOR - target{,target}\n" \o
            "Removes the given names from your list of monitored nicknames.\n" \o
            "\n" \o
            "    MONITOR C\n" \o
            "Clears your list of monitored nicknames.\n" \o
            "\n" \o
            "    MONITOR L\n" \o
            "Lists all the nicknames you are currently monitoring.\n" \o
            "\n" \o
            "    MONITOR S\n" \o
            "Lists whether each nick in your MONITOR list is online or offline."]) @@
    ("motd" :> [oper |-> FALSE, helpType |-> CommandHelpEntry, duplicate |-> FALSE, text |->
            "MOTD [server]\n" \o
            "\n" \o
            "Returns the message of the day for this, or the given, server."]) @@
    ("names" :> [oper |-> FALSE, helpType |-> CommandHelpEntry, duplicate |-> FALSE, text |->
            "NAMES [<channel>{,<channel>}]\n" \o
            "\n" \o
            "Views the clients joined to a channel and their channel membership prefixes. To\n" \o
            "view the channel membership prefixes supported by this server, see the help for\n" \o
            "\"PREFIX\"."]) @@
    ("nick" :> [oper |-> FALSE, helpType |-> CommandHelpEntry, duplicate |-> FALSE, text |->
            "NICK <newnick>\n" \o
            "\n" \o
            "Sets your nickname to the new given one."]) @@
    ("nickserv" :> [oper |-> FALSE, helpType |-> CommandHelpEntry, duplicate |-> FALSE, text |->
            "NICKSERV <subcommand> [params]\n" \o
            "\n" \o
            "NickServ controls accounts and user registrations."]) @@
    ("notice" :> [oper |-> FALSE, helpType |-> CommandHelpEntry, duplicate |-> FALSE, text |->
            "NOTICE <target>{,<target>} <text to be sent>\n" \o
            "\n" \o
            "Sends the text to the given targets as a NOTICE."]) @@
    ("npc" :> [oper |-> FALSE, helpType |-> CommandHelpEntry, duplicate |-> FALSE, text |->
            "NPC <target> <sourcenick> <text to be sent>\n" \o
            "\t\t\n" \o
            "The NPC command is used to send a message to the target as the source.\n" \o
            "\n" \o
            "Requires the roleplay mode (+E) to be set on the target."]) @@
    ("npca" :> [oper |-> FALSE, helpType |-> CommandHelpEntry, duplicate |-> FALSE, text |->
            "NPCA <target> <sourcenick> <text to be sent>\n" \o
            "\t\t\n" \o
            "The NPC command is used to send an action to the target as the source.\n" \o
            "\n" \o
            "Requires the roleplay mode (+E) to be set on the target."]) @@
    ("ns" :> [oper |-> FALSE, helpType |-> CommandHelpEntry, duplicate |-> FALSE, text |->
            "NS <subcommand> [params]\n" \o
            "\n" \o
            "NickServ controls accounts and user registrations."]) @@
    ("oper" :> [oper |-> FALSE, helpType |-> CommandHelpEntry, duplicate |-> FALSE, text |->
            "OPER <name> <password>\n" \o
            "\n" \o
            "If the correct details are given, gives you IRCop privs."]) @@
    ("part" :> [oper |-> FALSE, helpType |-> CommandHelpEntry, duplicate |-> FALSE, text |->
            "PART <channel>{,<channel>} [reason]\n" \o
            "\n" \o
            "Leaves the given channels and shows people the given reason."]) @@
    ("pass" :> [oper |-> FALSE, helpType |-> CommandHelpEntry, duplicate |-> FALSE, text |->
            "PASS <password>\n" \o
            "\n" \o
            "When the server requires a connection password to join, used to send us the\n" \o
            "password."]) @@
    ("ping" :> [oper |-> FALSE, helpType |-> CommandHelpEntry, duplicate |-> FALSE, text |->
            "PING <args>...\n" \o
            "\n" \o
            "Requests a PONG. Used to check link connectivity."]) @@
    ("pong" :> [oper |-> FALSE, helpType |-> CommandHelpEntry, duplicate |-> FALSE, text |->
            "PONG <args>...\n" \o
            "\n" \o
            "Replies to a PING. Used to check link connectivity."]) @@
    ("privmsg" :> [oper |-> FALSE, helpType |-> CommandHelpEntry, duplicate |-> FALSE, text |->
            "PRIVMSG <target>{,<target>} <text to be sent>\n" \o
            "\n" \o
            "Sends the text to the given targets as a PRIVMSG."]) @@
    ("rename" :> [oper |-> FALSE, helpType |-> CommandHelpEntry, duplicate |-> FALSE, text |->
            "RENAME <channel> <newname> [<reason>]\n" \o
            "\n" \o
            "Renames the given channel with the given reason, if possible.\n" \o
            "\n" \o
            "For example:\n" \o
            "\tRENAME #ircv2 #ircv3 :Protocol upgrades!"]) @@
    ("sanick" :> [oper |-> TRUE, helpType |-> CommandHelpEntry, duplicate |-> FALSE, text |->
            "SANICK <currentnick> <newnick>\n" \o
            "\n" \o
            "Gives the given user a new nickname."]) @@
    ("samode" :> [oper |-> TRUE, helpType |-> CommandHelpEntry, duplicate |-> FALSE, text |->
            "SAMODE <target> [<modestring> [<mode arguments>...]]\n" \o
            "\n" \o
            "Forcibly sets and removes modes from the given target -- only available to\n" \o
            "opers. For more specific information on mode characters, see the help for\n" \o
            "\"cmode\" and \"umode\"."]) @@
    ("scene" :> [oper |-> FALSE, helpType |-> CommandHelpEntry, duplicate |-> FALSE, text |->
            "SCENE <target> <text to be sent>\n" \o
            "\n" \o
            "The SCENE command is used to send a scene notification to the given target."]) @@
    ("tagmsg" :> [oper |-> FALSE, helpType |-> CommandHelpEntry, duplicate |-> FALSE, text |->
            "@+client-only-tags TAGMSG <target>{,<target>}\n" \o
            "\n" \o
            "Sends the given client-only tags to the given targets as a TAGMSG. See the IRCv3\n" \o
            "specs for more info: http://ircv3.net/specs/core/message-tags-3.3.html"]) @@
    ("quit" :> [oper |-> FALSE, helpType |-> CommandHelpEntry, duplicate |-> FALSE, text |->
            "QUIT [reason]\n" \o
            "\n" \o
            "Indicates that you're leaving the server, and shows everyone the given reason."]) @@
    ("rehash" :> [oper |-> TRUE, helpType |-> CommandHelpEntry, duplicate |-> FALSE, text |->
            "REHASH\n" \o
            "\n" \o
            "Reloads the config file and updates TLS certificates on listeners"]) @@
    ("time" :> [oper |-> FALSE, helpType |-> CommandHelpEntry, duplicate |-> FALSE, text |->
            "TIME [server]\n" \o
            "\n" \o
            "Shows the time of the current, or the given, server."]) @@
    ("topic" :> [oper |-> FALSE, helpType |-> CommandHelpEntry, duplicate |-> FALSE, text |->
            "TOPIC <channel> [topic]\n" \o
            "\n" \o
            "If [topic] is given, sets the topic in the channel to that. If [topic] is not\n" \o
            "given, views the current topic on the channel."]) @@
    ("undline" :> [oper |-> TRUE, helpType |-> CommandHelpEntry, duplicate |-> FALSE, text |->
            "UNDLINE <ip>/<net>\n" \o
            "\n" \o
            "Removes an existing ban on an IP address or a network.\n" \o
            "\n" \o
            "<net> is specified in typical CIDR notation. For example:\n" \o
            "\t127.0.0.1/8\n" \o
            "\t8.8.8.8/24"]) @@
    ("unkline" :> [oper |-> TRUE, helpType |-> CommandHelpEntry, duplicate |-> FALSE, text |->
            "UNKLINE <mask>\n" \o
            "\n" \o
            "Removes an existing ban on a mask.\n" \o
            "\n" \o
            "For example:\n" \o
            "\tdan\n" \o
            "\tdan!5*@127.*"]) @@
    ("user" :> [oper |-> FALSE, helpType |-> CommandHelpEntry, duplicate |-> FALSE, text |->
            "USER <username> 0 * <realname>\n" \o
            "\n" \o
            "Used in connection registration, sets your username and realname to the given\n" \o
            "values (though your username may also be looked up with Ident)."]) @@
    ("userhost" :> [oper |-> FALSE, helpType |-> CommandHelpEntry, duplicate |-> FALSE, text |->
            "USERHOST <nickname>{ <nickname>}\n" \o
            "\t\t\n" \o
            "Shows information about the given users. Takes up to 10 nicknames."]) @@
    ("version" :> [oper |-> FALSE, helpType |-> CommandHelpEntry, duplicate |-> FALSE, text |->
            "VERSION [server]\n" \o
            "\n" \o
            "Views the version of software and the RPL_ISUPPORT tokens for the given server."]) @@
    ("who" :> [oper |-> FALSE, helpType |-> CommandHelpEntry, duplicate |-> FALSE, text |->
            "WHO <name> [o]\n" \o
            "\n" \o
            "Returns information for the given user."]) @@
    ("whois" :> [oper |-> FALSE, helpType |-> CommandHelpEntry, duplicate |-> FALSE, text |->
            "WHOIS <client>{,<client>}\n" \o
            "\n" \o
            "Returns information for the given user(s)."]) @@
    ("whowas" :> [oper |-> FALSE, helpType |-> CommandHelpEntry, duplicate |-> FALSE, text |->
            "WHOWAS <nickname>\n" \o
            "\n" \o
            "Returns historical information on the last user with the given nickname."]) @@
    ("modes" :> [oper |-> FALSE, helpType |-> InformationHelpEntry, duplicate |-> FALSE, text |->
            cmodeHelpText \o "\n\n" \o umodeHelpText]) @@
    ("cmode" :> [oper |-> FALSE, helpType |-> InformationHelpEntry, duplicate |-> FALSE, text |->
            cmodeHelpText]) @@
    ("cmodes" :> [oper |-> FALSE, helpType |-> InformationHelpEntry, duplicate |-> TRUE, text |->
            cmodeHelpText]) @@
    ("umode" :> [oper |-> FALSE, helpType |-> InformationHelpEntry, duplicate |-> FALSE, text |->
            umodeHelpText]) @@
    ("umodes" :> [oper |-> FALSE, helpType |-> InformationHelpEntry, duplicate |-> TRUE, text |->
            umodeHelpText]) @@
    ("snomask" :> [oper |-> TRUE, helpType |-> InformationHelpEntry, duplicate |-> TRUE, text |->
            snomaskHelpText]) @@
    ("snomasks" :> [oper |-> TRUE, helpType |-> InformationHelpEntry, duplicate |-> FALSE, text |->
            snomaskHelpText]) @@
    ("casemapping" :> [oper |-> FALSE, helpType |-> ISupportHelpEntry, duplicate |-> FALSE, text |->
            "RPL_ISUPPORT CASEMAPPING\n" \o
            "\n" \o
            "Oragono supports an experimental unicode casemapping designed for extended\n" \o
            "Unicode support. This casemapping is based off RFC 7613 and the draft rfc7613\n" \o
            "casemapping spec here: http://oragono.io/specs.html"]) @@
    ("prefix" :> [oper |-> FALSE, helpType |-> ISupportHelpEntry, duplicate |-> FALSE, text |->
            "RPL_ISUPPORT PREFIX\n" \o
            "\n" \o
            "Oragono supports the following channel membership prefixes:\n" \o
            "\n" \o
            "  +q (~)  |  Founder channel mode.\n" \o
            "  +a (&)  |  Admin channel mode.\n" \o
            "  +o (@)  |  Operator channel mode.\n" \o
            "  +h (%)  |  Halfop channel mode.\n" \o
            "  +v (+)  |  Voice channel mode."])

\* the keys of the Help literal in the order the source lists them
HelpKeys ==
    << "acc", "ambiance", "authenticate", "away", "cap", "chanserv", "cs", "debug",
       "dline", "help", "helpop", "invite", "ison", "join", "kick", "kill",
       "kline", "list", "lusers", "mode", "monitor", "motd", "names", "nick",
       "nickserv", "notice", "npc", "npca", "ns", "oper", "part", "pass",
       "ping", "pong", "privmsg", "rename", "sanick", "samode", "scene", "tagmsg",
       "quit", "rehash", "time", "topic", "undline", "unkline", "user", "userhost",
       "version", "who", "whois", "whowas", "modes", "cmode", "cmodes", "umode",
       "umodes", "snomask", "snomasks", "casemapping", "prefix" >>
---------------------------------------------------------------------------
(* The help index *)

\* An order in which `range Help` visits the keys.  Go leaves the order
\* unspecified; Len(HelpKeys) is prime, so every stride gives a permutation.
StrideOrder(start, stride) ==
    [i \in 1..Len(HelpKeys) |-> HelpKeys[((start + i * stride) % Len(HelpKeys)) + 1]]

Orders == {StrideOrder(k, s) : k \in 0..MaxStart, s \in 1..MaxStride}

\* GenerateHelpIndex without the check of info.duplicate
GenerateHelpIndex_ListsDuplicates(help, forOpers, order) ==
    LET listed(name) == ~(help[name].oper /\ ~forOpers)
        isCommand(name) == listed(name) /\ help[name].helpType = CommandHelpEntry
        isISupport(name) == listed(name) /\ help[name].helpType = ISupportHelpEntry
        isInformation(name) == listed(name) /\ help[name].helpType = InformationHelpEntry
        line(names) == [i \in 1..Len(names) |-> "   " \o names[i]]
        commands == SortStrings(line(SelectSeq(order, isCommand)))
        isupport == SortStrings(line(SelectSeq(order, isISupport)))
        information == SortStrings(line(SelectSeq(order, isInformation)))
    IN  "= Help Topics =\n" \o
        "\n" \o
        "Commands:\n" \o
        Join(commands, "\n") \o "\n" \o
        "\n" \o
        "RPL_ISUPPORT Tokens:\n" \o
        Join(isupport, "\n") \o "\n" \o
        "\n" \o
        "Information:\n" \o
        Join(information, "\n")

\* GenerateHelpIndex(forOpers) over the map help, visited in the given order
GenerateHelpIndex(help, forOpers, order) ==
    LET listed(name) == ~help[name].duplicate /\ ~(help[name].oper /\ ~forOpers)
        isCommand(name) == listed(name) /\ help[name].helpType = CommandHelpEntry
        isISupport(name) == listed(name) /\ help[name].helpType = ISupportHelpEntry
        isInformation(name) == listed(name) /\ help[name].helpType = InformationHelpEntry
        line(names) == [i \in 1..Len(names) |-> "   " \o names[i]]
        commands == SortStrings(line(SelectSeq(order, isCommand)))
        isupport == SortStrings(line(SelectSeq(order, isISupport)))
        information == SortStrings(line(SelectSeq(order, isInformation)))
    IN  "= Help Topics =\n" \o
        "\n" \o
        "Commands:\n" \o
        Join(commands, "\n") \o "\n" \o
        "\n" \o
        "RPL_ISUPPORT Tokens:\n" \o
        Join(isupport, "\n") \o "\n" \o
        "\n" \o
        "Information:\n" \o
        Join(information, "\n")

\* the initial values of the package variables HelpIndex and HelpIndexOpers
HelpIndexLiteral == "list of all help topics for regular users"
HelpIndexOpersLiteral == "list of all help topics for opers"

---------------------------------------------------------------------------
(* Replies *)

RPL_HELPSTART == "RPL_HELPSTART"
RPL_HELPTXT == "RPL_HELPTXT"
RPL_ENDOFHELP == "RPL_ENDOFHELP"
ERR_HELPNOTFOUND == "ERR_HELPNOTFOUND"

\* client.server.name
ServerName == "server.name"

\* client.Send(nil, prefix, command, params...): the message handed to the client
Send(prefix, command, params) ==
    [prefix |-> prefix, command |-> command, params |-> params]

\* sendHelp with the test of the first line off by one
sendHelp_StartOnSecondLine(name, text) ==
    LET splitName == Split(name, " ")
        textLines == Split(text, "\n")
    IN  [i \in 1..Len(textLines) |->
            Send(ServerName,
                 IF i = 2 THEN RPL_HELPSTART ELSE RPL_HELPTXT,
                 splitName \o <<textLines[i]>>)]
        \o <<Send(ServerName, RPL_ENDOFHELP, splitName \o <<"End of /HELPOP">>)>>

\* sendHelp with an RPL_ENDOFHELP that does not carry the name
sendHelp_EndWithoutName(name, text) ==
    LET splitName == Split(name, " ")
        textLines == Split(text, "\n")
    IN  [i \in 1..Len(textLines) |->
            Send(ServerName,
                 IF i = 1 THEN RPL_HELPSTART ELSE RPL_HELPTXT,
                 splitName \o <<textLines[i]>>)]
        \o <<Send(ServerName, RPL_ENDOFHELP, <<"End of /HELPOP">>)>>

sendHelp(name, text) ==
    LET splitName == Split(name, " ")
        textLines == Split(text, "\n")
    IN  [i \in 1..Len(textLines) |->
            Send(ServerName,
                 IF i = 1 THEN RPL_HELPSTART ELSE RPL_HELPTXT,
                 splitName \o <<textLines[i]>>)]
        \o <<Send(ServerName, RPL_ENDOFHELP, splitName \o <<"End of /HELPOP">>)>>

\* the text helpHandler sends when the argument is empty
HelpopUsage ==
    "HELPOP <argument>\n" \o
    "\n" \o
    "Get an explanation of <argument>, or \"index\" for a list of help topics."

\* helpHandler without the check of the oper field
helpHandlerSends_NoOperCheck(help, helpIndex, helpIndexOpers, isOper, params) ==
    LET argument == ToLower(TrimSpace(Join(params, " ")))
    IN  IF Len(argument) < 1 THEN sendHelp("HELPOP", HelpopUsage)
        ELSE IF argument = "index"
             THEN IF isOper THEN sendHelp("HELP", helpIndexOpers)
                            ELSE sendHelp("HELP", helpIndex)
        ELSE LET exists == argument \in DOMAIN help
             IN  IF exists
                 THEN sendHelp(ToUpper(argument), help[argument].text)
                 ELSE <<Send(ServerName, ERR_HELPNOTFOUND, params \o <<"Help not found">>)>>


\* helpHandler answering ERR_HELPNOTFOUND with the argument it looked up
helpHandlerSends_EchoesArgument(help, helpIndex, helpIndexOpers, isOper, params) ==
    LET argument == ToLower(TrimSpace(Join(params, " ")))
    IN  IF Len(argument) < 1 THEN sendHelp("HELPOP", HelpopUsage)
        ELSE IF argument = "index"
             THEN IF isOper THEN sendHelp("HELP", helpIndexOpers)
                            ELSE sendHelp("HELP", helpIndex)
        ELSE LET exists == argument \in DOMAIN help
             IN  IF exists /\ (~help[argument].oper \/ (help[argument].oper /\ isOper))
                 THEN sendHelp(ToUpper(argument), help[argument].text)
                 ELSE <<Send(ServerName, ERR_HELPNOTFOUND, <<argument, "Help not found">>)>>


\* helpHandler sending every client the index for operators
helpHandlerSends_IndexForOpers(help, helpIndex, helpIndexOpers, isOper, params) ==
    LET argument == ToLower(TrimSpace(Join(params, " ")))
    IN  IF Len(argument) < 1 THEN sendHelp("HELPOP", HelpopUsage)
        ELSE IF argument = "index"
             THEN sendHelp("HELP", helpIndexOpers)
        ELSE LET exists == argument \in DOMAIN help
             IN  IF exists /\ (~help[argument].oper \/ (help[argument].oper /\ isOper))
                 THEN sendHelp(ToUpper(argument), help[argument].text)
                 ELSE <<Send(ServerName, ERR_HELPNOTFOUND, params \o <<"Help not found">>)>>


\* helpHandler without the case of the empty argument
helpHandlerSends_NoUsage(help, helpIndex, helpIndexOpers, isOper, params) ==
    LET argument == ToLower(TrimSpace(Join(params, " ")))
    IN  IF argument = "index"
             THEN IF isOper THEN sendHelp("HELP", helpIndexOpers)
                            ELSE sendHelp("HELP", helpIndex)
        ELSE LET exists == argument \in DOMAIN help
             IN  IF exists /\ (~help[argument].oper \/ (help[argument].oper /\ isOper))
                 THEN sendHelp(ToUpper(argument), help[argument].text)
                 ELSE <<Send(ServerName, ERR_HELPNOTFOUND, params \o <<"Help not found">>)>>


\* helpHandler without strings.ToLower
helpHandlerSends_CaseSensitive(help, helpIndex, helpIndexOpers, isOper, params) ==
    LET argument == TrimSpace(Join(params, " "))
    IN  IF Len(argument) < 1 THEN sendHelp("HELPOP", HelpopUsage)
        ELSE IF argument = "index"
             THEN IF isOper THEN sendHelp("HELP", helpIndexOpers)
                            ELSE sendHelp("HELP", helpIndex)
        ELSE LET exists == argument \in DOMAIN help
             IN  IF exists /\ (~help[argument].oper \/ (help[argument].oper /\ isOper))
                 THEN sendHelp(ToUpper(argument), help[argument].text)
                 ELSE <<Send(ServerName, ERR_HELPNOTFOUND, params \o <<"Help not found">>)>>


\* the messages helpHandler sends for msg.Params = params to a client whose
\* flags[Operator] is isOper
helpHandlerSends(help, helpIndex, helpIndexOpers, isOper, params) ==
    LET argument == ToLower(TrimSpace(Join(params, " ")))
    IN  IF Len(argument) < 1 THEN sendHelp("HELPOP", HelpopUsage)
        ELSE IF argument = "index"
             THEN IF isOper THEN sendHelp("HELP", helpIndexOpers)
                            ELSE sendHelp("HELP", helpIndex)
        ELSE LET exists == argument \in DOMAIN help
             IN  IF exists /\ (~help[argument].oper \/ (help[argument].oper /\ isOper))
                 THEN sendHelp(ToUpper(argument), help[argument].text)
                 ELSE <<Send(ServerName, ERR_HELPNOTFOUND, params \o <<"Help not found">>)>>

\* helpHandler keeping the index it sent in HelpIndex
helpHandler_KeepsIndexSent(c, params) ==
    /\ sent' = helpHandlerSends(Help, HelpIndex, HelpIndexOpers, flags[c], params)
    /\ call' = [func |-> "helpHandler", client |-> c, params |-> params]
    /\ HelpIndex' = IF flags[c] THEN HelpIndexOpers ELSE HelpIndex
    /\ UNCHANGED <<Help, HelpIndexOpers, flags, newHelpIndex>>

helpHandler(c, params) ==
    /\ sent' = helpHandlerSends(Help, HelpIndex, HelpIndexOpers, flags[c], params)
    /\ call' = [func |-> "helpHandler", client |-> c, params |-> params]
    /\ UNCHANGED <<Help, HelpIndex, HelpIndexOpers, flags, newHelpIndex>>

---------------------------------------------------------------------------
(* The server: clients send HELP and HELPOP commands *)

\* msg.Params of the commands the clients send
Requests ==
    {<<name>> : name \in DOMAIN HelpLiteral} \cup
    { <<>>, <<"">>, <<" ">>, <<"", "">>,
      <<"index">>, <<"INDEX">>, <<" Index ">>, <<"index", "kill">>,
      <<"AWAY">>, <<" Away ">>, <<"", "away">>, <<"a", "way">>,
      <<"KILL">>, <<"kill", "">>, <<"kill", "dan">>,
      <<"CModes">>, <<"nosuch">>, <<"no", "such", "topic">> }

NoCall == [func |-> "none"]

NotReturned == [forOpers \in BOOLEAN |-> ""]

\* What the start of the server leaves in HelpIndex (forOpers = FALSE) and in
\* HelpIndexOpers (forOpers = TRUE): the index generated from Help, the map
\* visited in any order.
GeneratedAtStartup(forOpers) ==
    {GenerateHelpIndex(HelpLiteral, forOpers, o) : o \in Orders}

\* The state once the server has started: the help indexes have been
\* generated, and each client is an operator or not.
Init ==
    /\ Help = HelpLiteral
    /\ HelpIndex \in GeneratedAtStartup(FALSE)
    /\ HelpIndexOpers \in GeneratedAtStartup(TRUE)
    /\ flags \in [Clients -> BOOLEAN]
    /\ call = NoCall
    /\ sent = <<>>
    /\ newHelpIndex = NotReturned

Next == \E c \in Clients, params \in Requests : helpHandler(c, params)

Spec == Init /\ [][Next]_vars

---------------------------------------------------------------------------
(* GenerateHelpIndex on its own: one call for each value of forOpers, each *)
(* visiting the Help map in an order of its own                            *)

InitIndex ==
    /\ Help = HelpLiteral
    /\ HelpIndex = HelpIndexLiteral
    /\ HelpIndexOpers = HelpIndexOpersLiteral
    /\ flags = [c \in Clients |-> FALSE]
    /\ call \in {[func |-> "GenerateHelpIndex", order |-> o] :
                    o \in [BOOLEAN -> Orders]}
    /\ sent = <<>>
    /\ newHelpIndex = NotReturned

GenerateHelpIndexCall(forOpers) ==
    /\ call.func = "GenerateHelpIndex"
    /\ newHelpIndex[forOpers] = ""
    /\ newHelpIndex' = [newHelpIndex EXCEPT
                           ![forOpers] = GenerateHelpIndex(Help, forOpers, call.order[forOpers])]
    /\ UNCHANGED <<Help, HelpIndex, HelpIndexOpers, flags, call, sent>>

NextIndex == \E forOpers \in BOOLEAN : GenerateHelpIndexCall(forOpers)

SpecIndex == InitIndex /\ [][NextIndex]_vars

---------------------------------------------------------------------------
(* sendHelp on its own: one call with a name and a text *)

\* the names helpHandler passes: "HELPOP", "HELP" and an upper-cased key of Help
Names == {"HELPOP", "HELP", "AWAY"}

TextLines == {"", "a", "b c"}

Texts == {Join(lines, "\n") : lines \in UNION {[1..n -> TextLines] : n \in 1..MaxLines}}

InitSendHelp ==
    /\ Help = HelpLiteral
    /\ HelpIndex = HelpIndexLiteral
    /\ HelpIndexOpers = HelpIndexOpersLiteral
    /\ flags = [c \in Clients |-> FALSE]
    /\ call \in {[func |-> "sendHelp", name |-> n, text |-> t, returned |-> FALSE] :
                    n \in Names, t \in Texts}
    /\ sent = <<>>
    /\ newHelpIndex = NotReturned

sendHelpCall ==
    /\ call.func = "sendHelp"
    /\ ~call.returned
    /\ sent' = sendHelp(call.name, call.text)
    /\ call' = [call EXCEPT !.returned = TRUE]
    /\ UNCHANGED <<Help, HelpIndex, HelpIndexOpers, flags, newHelpIndex>>

NextSendHelp == sendHelpCall

SpecSendHelp == InitSendHelp /\ [][NextSendHelp]_vars

---------------------------------------------------------------------------
(* Properties *)

\* the most recent call was helpHandler, for the client call.client
IsHelpCall == call.func = "helpHandler"

\* the query of a request: the parameters joined with single spaces,
\* trimmed and lowercased
Query(params) == ToLower(TrimSpace(Join(params, " ")))

NumLines(text) == Cardinality({i \in 1..Len(text) : At(text, i) = "\n"}) + 1

\* out frames the k lines of text under label: k + 1 messages from the
\* server, each carrying the label and one more parameter; the first k are
\* one RPL_HELPSTART and then RPL_HELPTXT and carry the lines of text in
\* order; the last is RPL_ENDOFHELP
Framed(label, text, out) ==
    LET k == NumLines(text)
    IN  /\ Len(out) = k + 1
        /\ \A i \in 1..(k + 1) :
              /\ out[i].prefix = ServerName
              /\ Len(out[i].params) = 2
              /\ out[i].params[1] = label
        /\ out[1].command = RPL_HELPSTART
        /\ \A i \in 2..k : out[i].command = RPL_HELPTXT
        /\ out[k + 1].command = RPL_ENDOFHELP
        /\ \A i \in 1..k : \A j \in 1..Len(out[i].params[2]) : At(out[i].params[2], j) # "\n"
        /\ Join([i \in 1..k |-> out[i].params[2]], "\n") = text

\* the single ERR_HELPNOTFOUND reply to a request
NotFound(params) == <<Send(ServerName, ERR_HELPNOTFOUND, params \o <<"Help not found">>)>>

\* the indexes generated from the Help literal, visited in source order
GeneralIndex == GenerateHelpIndex(HelpLiteral, FALSE, HelpKeys)
OperatorIndex == GenerateHelpIndex(HelpLiteral, TRUE, HelpKeys)
GeneralIndexLines == Split(GeneralIndex, "\n")
OperatorIndexLines == Split(OperatorIndex, "\n")

\* the keys GenerateHelpIndex(forOpers) is to list under a help type
Listed(forOpers, helpType) ==
    {name \in DOMAIN HelpLiteral :
        /\ ~HelpLiteral[name].duplicate
        /\ forOpers \/ ~HelpLiteral[name].oper
        /\ HelpLiteral[name].helpType = helpType}

\* line is an entry of a section: a key indented by three spaces
Indented(line) == Len(line) > 3 /\ SubSeq(line, 1, 3) = "   "

\* section lists the keys in names, each once, indented, in ascending order
SectionLists(section, names) ==
    LET entry(i) == SubSeq(section[i], 4, Len(section[i]))
    IN  /\ Len(section) = Cardinality(names)
        /\ \A i \in 1..Len(section) : Indented(section[i])
        /\ {entry(i) : i \in 1..Len(section)} = names
        /\ \A i \in 1..(Len(section) - 1) : Less(entry(i), entry(i + 1))

\* index is the three sections Commands, RPL_ISUPPORT Tokens and Information
\* under the heading, listing the keys of their help type and nothing else
IndexLists(index, forOpers) ==
    LET lines == Split(index, "\n")
        nc == Cardinality(Listed(forOpers, CommandHelpEntry))
        ni == Cardinality(Listed(forOpers, ISupportHelpEntry))
        nf == Cardinality(Listed(forOpers, InformationHelpEntry))
    IN  /\ Len(lines) = nc + ni + nf + 7
        /\ lines[1] = "= Help Topics ="
        /\ lines[2] = ""
        /\ lines[3] = "Commands:"
        /\ SectionLists(SubSeq(lines, 4, 3 + nc), Listed(forOpers, CommandHelpEntry))
        /\ lines[4 + nc] = ""
        /\ lines[5 + nc] = "RPL_ISUPPORT Tokens:"
        /\ SectionLists(SubSeq(lines, 6 + nc, 5 + nc + ni), Listed(forOpers, ISupportHelpEntry))
        /\ lines[6 + nc + ni] = ""
        /\ lines[7 + nc + ni] = "Information:"
        /\ SectionLists(SubSeq(lines, 8 + nc + ni, 7 + nc + ni + nf),
                        Listed(forOpers, InformationHelpEntry))

\* the keys an index lists: its indented lines
IndexNames(index) ==
    LET lines == Split(index, "\n")
    IN  {SubSeq(lines[i], 4, Len(lines[i])) :
            i \in {j \in 1..Len(lines) : Indented(lines[j])}}

\* C1: a request for an operator-only topic by its key gets a client that is
\* not an operator exactly one ERR_HELPNOTFOUND reply and nothing else, and
\* gets an operator the text of the topic framed under the upper-cased key.
C1_OperatorOnlyTopics ==
    \A t \in DOMAIN Help :
        (Help[t].oper /\ IsHelpCall /\ call.params = <<t>>) =>
            IF flags[call.client]
            THEN /\ Framed(ToUpper(t), Help[t].text, sent)
                 /\ \A i \in 1..Len(sent) : sent[i].command # ERR_HELPNOTFOUND
            ELSE /\ Len(sent) = 1
                 /\ sent[1].command = ERR_HELPNOTFOUND

C1_Witness ==
    /\ IsHelpCall
    /\ call.params = <<"kill">>
    /\ flags[call.client]
    /\ sent[1] = Send(ServerName, RPL_HELPSTART, <<"KILL", "KILL <nickname> [reason]">>)

\* C2: sendHelp(name, text) with a text of k >= 1 lines hands the client
\* k + 1 messages: RPL_HELPSTART with (name, line 1), RPL_HELPTXT with
\* (name, line i) for i = 2..k in the order of the text, then one
\* RPL_ENDOFHELP, and nothing before or after.
C2_Framing ==
    (call.func = "sendHelp" /\ call.returned) => Framed(call.name, call.text, sent)

C2_Witness ==
    /\ call.func = "sendHelp"
    /\ call.returned
    /\ call.text = "a\n\nb c"
    /\ Len(sent) = 4
    /\ sent[3].params = <<call.name, "b c">>

\* C3: a request whose query is neither empty nor "index" and is no key of
\* Help, or is the key of an operator-only topic while the client is not an
\* operator, gets exactly one reply: ERR_HELPNOTFOUND with the parameters of
\* the request as sent, followed by "Help not found".  The reply is a
\* function of the parameters alone, so it is the same for an absent topic
\* and for an operator-only one.
C3_NotFound ==
    IsHelpCall =>
        LET q == Query(call.params)
        IN  (/\ q # ""
             /\ q # "index"
             /\ \/ q \notin DOMAIN Help
                \/ Help[q].oper /\ ~flags[call.client])
            => sent = NotFound(call.params)

C3_Witness ==
    /\ IsHelpCall
    /\ call.params = <<"KILL">>
    /\ ~flags[call.client]
    /\ sent = <<Send(ServerName, ERR_HELPNOTFOUND, <<"KILL", "Help not found">>)>>

\* the requests whose query is "index"
IndexRequests == {<<"index">>, <<"INDEX">>, <<" Index ">>}

\* C4: a request whose query is "index" gets the index generated for
\* operators if the client is an operator and the general one otherwise,
\* framed under "HELP"; what a client that is not an operator gets lists no
\* operator-only key and no duplicate key.
C4_Index ==
    (IsHelpCall /\ call.params \in IndexRequests) =>
        /\ Framed("HELP", IF flags[call.client] THEN OperatorIndex ELSE GeneralIndex, sent)
        /\ ~flags[call.client] =>
              \A name \in DOMAIN Help :
                  (Help[name].oper \/ Help[name].duplicate) =>
                      \A i \in 1..(Len(sent) - 1) : sent[i].params[2] # "   " \o name

C4_Witness ==
    /\ IsHelpCall
    /\ call.params = <<"index">>
    /\ ~flags[call.client]
    /\ \E i \in 1..Len(sent) : sent[i].params = <<"HELP", "   away">>
    /\ sent[1].params = <<"HELP", "= Help Topics =">>

\* C5: what GenerateHelpIndex(forOpers) returns lists exactly the keys that
\* are no duplicate and, unless forOpers, not operator-only: each once, in
\* the section of its help type, every section in ascending order; it is the
\* same for every order in which the map is visited; and the keys of the
\* general index are among those of the operators' index.
C5_GenerateHelpIndex ==
    /\ \A forOpers \in BOOLEAN :
          newHelpIndex[forOpers] # "" =>
              /\ IndexLists(newHelpIndex[forOpers], forOpers)
              /\ newHelpIndex[forOpers] = IF forOpers THEN OperatorIndex ELSE GeneralIndex
    /\ (newHelpIndex[FALSE] # "" /\ newHelpIndex[TRUE] # "") =>
          IndexNames(newHelpIndex[FALSE]) \subseteq IndexNames(newHelpIndex[TRUE])

C5_Witness ==
    /\ call.func = "GenerateHelpIndex"
    /\ call.order[FALSE] # call.order[TRUE]
    /\ call.order[FALSE] # HelpKeys
    /\ "away" \in IndexNames(newHelpIndex[FALSE])
    /\ "kill" \in IndexNames(newHelpIndex[TRUE]) \ IndexNames(newHelpIndex[FALSE])

\* C6 as claimed: the last message of sendHelp(name, text) is RPL_ENDOFHELP
\* with the parameters (name, "End of help").
C6_EndOfHelp_AsClaimed ==
    (call.func = "sendHelp" /\ call.returned) =>
        /\ sent[Len(sent)].command = RPL_ENDOFHELP
        /\ sent[Len(sent)].params = <<call.name, "End of help">>

\* C6: the last message of sendHelp(name, text) is RPL_ENDOFHELP with the
\* parameters (name, "End of /HELPOP").
C6_EndOfHelp ==
    (call.func = "sendHelp" /\ call.returned) =>
        /\ sent[Len(sent)].command = RPL_ENDOFHELP
        /\ sent[Len(sent)].params = <<call.name, "End of /HELPOP">>

C6_Witness ==
    /\ call.func = "sendHelp"
    /\ call.returned
    /\ call.name = "AWAY"
    /\ call.text = "a"
    /\ sent[2] = Send(ServerName, RPL_ENDOFHELP, <<"AWAY", "End of /HELPOP">>)

\* the requests whose query is empty
EmptyRequests == {<<>>, <<"">>, <<" ">>, <<"", "">>}

\* C7 as claimed: a request whose query is empty gets a usage text of two
\* lines framed under "HELPOP": one RPL_HELPSTART, one RPL_HELPTXT and one
\* RPL_ENDOFHELP.
C7_Usage_AsClaimed ==
    (IsHelpCall /\ call.params \in EmptyRequests) =>
        /\ Len(sent) = 3
        /\ sent[1].command = RPL_HELPSTART
        /\ sent[2].command = RPL_HELPTXT
        /\ sent[3].command = RPL_ENDOFHELP
        /\ \A i \in 1..3 : sent[i].params[1] = "HELPOP"

\* C7: a request whose query is empty gets the usage text framed under
\* "HELPOP", whoever the client is.  The text has three lines, the second of
\* them empty: one RPL_HELPSTART, two RPL_HELPTXT and one RPL_ENDOFHELP, and
\* no ERR_HELPNOTFOUND.
C7_Usage ==
    (IsHelpCall /\ call.params \in EmptyRequests) =>
        /\ Len(sent) = 4
        /\ sent[1] = Send(ServerName, RPL_HELPSTART, <<"HELPOP", "HELPOP <argument>">>)
        /\ sent[2] = Send(ServerName, RPL_HELPTXT, <<"HELPOP", "">>)
        /\ sent[3] = Send(ServerName, RPL_HELPTXT,
              <<"HELPOP", "Get an explanation of <argument>, or \"index\" for a list of help topics.">>)
        /\ sent[4].command = RPL_ENDOFHELP
        /\ sent[4].params[1] = "HELPOP"

C7_Witness ==
    /\ IsHelpCall
    /\ call.params = <<" ">>
    /\ flags[call.client]
    /\ Len(sent) = 4
    /\ sent[2].params = <<"HELPOP", "">>

\* C8: a duplicate key is listed in neither index; its text is the text of
\* a key that is no duplicate; and a request for it by a client allowed to
\* see it gets that text framed under the upper-cased key.
C8_Duplicates ==
    \A e \in DOMAIN Help :
        Help[e].duplicate =>
            /\ \A i \in 1..Len(GeneralIndexLines) : GeneralIndexLines[i] # "   " \o e
            /\ \A i \in 1..Len(OperatorIndexLines) : OperatorIndexLines[i] # "   " \o e
            /\ \E c \in DOMAIN Help : ~Help[c].duplicate /\ Help[c].text = Help[e].text
            /\ (/\ IsHelpCall
                /\ call.params = <<e>>
                /\ ~Help[e].oper \/ flags[call.client])
               => Framed(ToUpper(e), Help[e].text, sent)

C8_Witness ==
    /\ IsHelpCall
    /\ call.params = <<"cmodes">>
    /\ ~flags[call.client]
    /\ Framed("CMODES", Help["cmode"].text, sent)
    /\ "cmode" \in IndexNames(GeneralIndex)
    /\ "cmodes" \notin IndexNames(OperatorIndex)

\* requests for the topic away
AwayRequests == {<<"away">>, <<"AWAY">>, <<" Away ">>, <<"", "away">>}

\* C9: a request whose query is the key of a topic the client may see gets
\* the text of the topic framed under the upper-cased query, so requests
\* with the same query get the same messages; for the topic away the first
\* message carries ("AWAY", "AWAY [message]").
C9_Normalisation ==
    IsHelpCall =>
        /\ LET q == Query(call.params)
           IN  (q \in DOMAIN Help /\ (~Help[q].oper \/ flags[call.client]))
                   => Framed(ToUpper(q), Help[q].text, sent)
        /\ call.params \in AwayRequests =>
              /\ Framed("AWAY", Help["away"].text, sent)
              /\ sent[1] = Send(ServerName, RPL_HELPSTART, <<"AWAY", "AWAY [message]">>)

C9_Witness ==
    /\ IsHelpCall
    /\ call.params = <<" Away ">>
    /\ Len(sent) = 5
    /\ sent[1].params = <<"AWAY", "AWAY [message]">>

\* what helpHandler sends when it is the first call after the server started
FirstCallSends(isOper, params) ==
    helpHandlerSends(HelpLiteral, GeneralIndex, OperatorIndex, isOper, params)

\* C10: whatever calls came before, helpHandler sends what it would send as
\* the first call, and no call changes Help, the help indexes or the
\* operator flag of a client.
C10_Stateless ==
    /\ [](IsHelpCall => sent = FirstCallSends(flags[call.client], call.params))
    /\ [][/\ Help' = Help
          /\ HelpIndex' = HelpIndex
          /\ HelpIndexOpers' = HelpIndexOpers
          /\ flags' = flags]_vars

C10_Witness ==
    /\ IsHelpCall
    /\ call.client = 2
    /\ call.params = <<"snomasks">>
    /\ flags[2] /\ ~flags[1]
    /\ Len(sent) > 1
    /\ Help = HelpLiteral

============================================================================
